---- MODULE Spec2Model ----
(***************************************************************************)
(* glua-webhook: the admission webhook handler (pkg/webhook), the script   *)
(* loader (pkg/scriptloader) and the Lua script runner (pkg/luarunner).    *)
(*                                                                         *)
(* Strings are sequences of one-character strings, so that strings.Split,  *)
(* strings.TrimSpace and Go's byte-wise string comparison are computed as  *)
(* the code computes them.  A JSON text ([]byte) is a pair of its          *)
(* formatting ("compact": exactly what json.Marshal emits, "pretty": the   *)
(* same value written with other whitespace or key order, "invalid": not   *)
(* JSON) and the value it denotes, so that a string comparison of two      *)
(* texts and a comparison of the values they denote are different things.  *)
(***************************************************************************)
EXTENDS Integers, Sequences, FiniteSets, TLC

\* ---------------------------------------------------------------- bounds
\* largest number of comma-separated entries in the scripts annotation
MaxRefs == 3

\* largest length of an annotation value written character by character
MaxAnnLen == 6

\* the number of scripts in the pipeline of a concurrent request
MaxPipeline == 2

\* ---------------------------------------------------------------- strings
\* byte value of the characters the model uses (Go compares strings by bytes)
Code(c) ==
  CASE c = " " -> 32
    [] c = "," -> 44
    [] c = "/" -> 47
    [] c = "a" -> 97
    [] c = "b" -> 98
    [] c = "c" -> 99
    [] c = "d" -> 100
    [] c = "m" -> 109
    [] c = "n" -> 110

\* Go's s < t on strings: byte-wise lexicographic, a proper prefix is smaller
RECURSIVE StrLess(_, _)
StrLess(s, t) ==
  IF Len(t) = 0 THEN FALSE
  ELSE IF Len(s) = 0 THEN TRUE
  ELSE IF Code(Head(s)) # Code(Head(t)) THEN Code(Head(s)) < Code(Head(t))
  ELSE StrLess(Tail(s), Tail(t))

\* Go's s > t on strings
StrGreater(s, t) == StrLess(t, s)

\* index of the first occurrence of the character sep in s, 0 when absent
IndexOf(s, sep) ==
  IF \E i \in 1..Len(s) : s[i] = sep
  THEN CHOOSE i \in 1..Len(s) : s[i] = sep /\ \A j \in 1..(i - 1) : s[j] # sep
  ELSE 0

\* strings.Split(s, sep) for a one-character separator: always one piece
\* more than there are separators, so Split("", ",") is <<"">>
RECURSIVE Split(_, _)
Split(s, sep) ==
  LET k == IndexOf(s, sep) IN
  IF k = 0 THEN << s >>
  ELSE << SubSeq(s, 1, k - 1) >> \o Split(SubSeq(s, k + 1, Len(s)), sep)

\* strings.TrimSpace restricted to the space character
RECURSIVE TrimLeft(_)
TrimLeft(s) == IF Len(s) > 0 /\ Head(s) = " " THEN TrimLeft(Tail(s)) ELSE s

RECURSIVE TrimRight(_)
TrimRight(s) ==
  IF Len(s) > 0 /\ s[Len(s)] = " " THEN TrimRight(SubSeq(s, 1, Len(s) - 1)) ELSE s

TrimSpace(s) == TrimRight(TrimLeft(s))

\* fmt.Sprintf("%s/%s", namespace, name)
ScriptName(namespace, name) == namespace \o << "/" >> \o name

\* ---------------------------------------------------------------- inputs
\* the entries an annotation value is built from: three plain references,
\* one of them a second time with surrounding whitespace (so that one
\* ConfigMap can be named twice), and an entry without a separator
EntryPool ==
  { << "n", "/", "b" >>,
    << "n", "/", "a" >>,
    << " ", "n", "/", "a", " " >>,
    << "m", "/", "c" >>,
    << "b", "a", "d" >> }

RECURSIVE JoinComma(_)
JoinComma(es) ==
  IF Len(es) = 0 THEN << >>
  ELSE IF Len(es) = 1 THEN es[1]
  ELSE es[1] \o << "," >> \o JoinComma(Tail(es))

\* the annotation values: up to MaxRefs different entries of the pool, in
\* any order, joined by commas; no entry at all is the empty annotation
AnnotationValues ==
  { JoinComma(es) :
      es \in { f \in UNION { [1..k -> EntryPool] : k \in 0..MaxRefs } :
                 \A i, j \in DOMAIN f : i # j => f[i] # f[j] } }

\* the annotations of an object: no annotation map at all, a map without the
\* glua.maurice.fr/scripts key, or a map with the key
Annotations ==
  { [kind |-> "nil", value |-> << >>], [kind |-> "nokey", value |-> << >>] }
    \cup { [kind |-> "value", value |-> v] : v \in AnnotationValues }

\* ---------------------------------------------------------------- documents
\* the value a JSON text denotes: whether its metadata fits
\* metav1.ObjectMeta, its annotations, and the field `order` the scripts of
\* the model append their names to
Tree(meta, ann, order) == [meta |-> meta, annotations |-> ann, order |-> order]

NilAnnotations == [kind |-> "nil", value |-> << >>]

\* a JSON text
Bytes(form, tree) == [form |-> form, tree |-> tree]

\* the nil []byte of Go
NoBytes == [form |-> "nil", tree |-> Tree("ok", NilAnnotations, << >>)]

\* json.Unmarshal(data, &v) for v interface{}: fails on text that is not JSON
UnmarshalOk(data) == data.form \in {"compact", "pretty"}
Unmarshal(data) == data.tree

\* json.Unmarshal(req.Object.Raw, &metadata): fails on text that is not
\* JSON and on a metadata field that does not fit metav1.ObjectMeta
UnmarshalMetadataOk(data) == UnmarshalOk(data) /\ data.tree.meta = "ok"

\* json.Marshal(v): compact text with sorted keys
Marshal(tree) == Bytes("compact", tree)

\* the objects an admission request can carry
Objects ==
  { Bytes("invalid", Tree("ok", NilAnnotations, << >>)),
    Bytes("compact", Tree("mistyped", NilAnnotations, << >>)) }
    \cup { Bytes(f, Tree("ok", a, << >>)) : f \in {"compact", "pretty"}, a \in Annotations }


\* the admission requests: method, whether the body decodes as an
\* AdmissionReview, whether the review carries a request, and the object
\* (req.Object.Raw) of that request
HttpRequest(method, body, object) ==
  [method |-> method, body |-> body, uid |-> "uid-1", object |-> object]

NoObject == Bytes("invalid", Tree("ok", NilAnnotations, << >>))

Requests ==
  { HttpRequest("GET", "review", NoObject),
    HttpRequest("GET", "undecodable", NoObject),
    HttpRequest("POST", "undecodable", NoObject),
    HttpRequest("POST", "norequest", NoObject) }
    \cup { HttpRequest("POST", "review", o) : o \in Objects }

\* what clientset.CoreV1().ConfigMaps(ns).Get answers for a reference: an
\* error, a ConfigMap without the script.lua key, one with an empty
\* script.lua, or one whose script.lua is a script of one of these kinds:
\*   noop    runs to the end and leaves `object` as it is
\*   append  appends the script's own name to object.order
\*   error   makes L.DoString return an error: it is not valid Lua, or it
\*           changes `object` and then calls error()
ScriptKinds == {"noop", "append", "error"}
GetResults == {"notfound", "nokey", "empty"} \cup ScriptKinds

\* what the glua translator does in one RunScript call (ToLua, FromLua)
TranslatorOutcomes == {"ok", "toLuaErr", "fromLuaErr"}

\* ---------------------------------------------------------------- luarunner
\* the value of the global `object` after L.DoString ran the script to its end
LuaEffect(scriptName, scriptContent, tree) ==
  IF scriptContent = "append"
  THEN Tree(tree.meta, tree.annotations, Append(tree.order, scriptName))
  ELSE tree

ScriptResult(ok, out, err) == [ok |-> ok, out |-> out, err |-> err]

\* ScriptRunner.RunScript: (resultJSON, nil) or (nil, err)
RunScript(scriptName, scriptContent, objectJSON, tr) ==
  IF ~UnmarshalOk(objectJSON) THEN ScriptResult(FALSE, NoBytes, "unmarshal")
  ELSE IF tr = "toLuaErr" THEN ScriptResult(FALSE, NoBytes, "toLua")
  ELSE IF scriptContent = "error" THEN ScriptResult(FALSE, NoBytes, "script")
  ELSE IF tr = "fromLuaErr" THEN ScriptResult(FALSE, NoBytes, "fromLua")
  ELSE ScriptResult(TRUE,
         Marshal(LuaEffect(scriptName, scriptContent, Unmarshal(objectJSON))), "")

\* the inner loop of the sort of RunScriptsSequentially:
\* for j := i+1; j < len; j++ { if s[i] > s[j] { swap } }
RECURSIVE SortInner(_, _, _)
SortInner(s, i, j) ==
  IF j > Len(s) THEN s
  ELSE IF StrGreater(s[i], s[j])
       THEN SortInner([s EXCEPT ![i] = s[j], ![j] = s[i]], i, j + 1)
       ELSE SortInner(s, i, j + 1)

RECURSIVE SortOuter(_, _)
SortOuter(s, i) ==
  IF i > Len(s) THEN s ELSE SortOuter(SortInner(s, i, i + 1), i + 1)

\* the ConfigMap name of a reference namespace/name
ConfigMapName(ref) == LET parts == Split(ref, "/") IN parts[Len(parts)]

\* a sort that compares the ConfigMap names only
RECURSIVE SortInnerByName(_, _, _)
SortInnerByName(s, i, j) ==
  IF j > Len(s) THEN s
  ELSE IF StrGreater(ConfigMapName(s[i]), ConfigMapName(s[j]))
       THEN SortInnerByName([s EXCEPT ![i] = s[j], ![j] = s[i]], i, j + 1)
       ELSE SortInnerByName(s, i, j + 1)

RECURSIVE SortOuterByName(_, _)
SortOuterByName(s, i) ==
  IF i > Len(s) THEN s ELSE SortOuterByName(SortInnerByName(s, i, i + 1), i + 1)

SortNamesByConfigMapName(names) == SortOuterByName(names, 1)

\* a pipeline that runs the scripts in the order the map hands them out
SortNamesOmitted(names) == names

\* sortedNames of RunScriptsSequentially, from the names in the order the
\* range over the map produced them
SortNames(names) == SortOuter(names, 1)

\* a loop that assigns currentJSON = result before it looks at err
NextJSONAssignFirst(objectJSON, currentJSON, res) == res.out

\* a loop that goes back to the function's argument when a script fails
NextJSONRollback(objectJSON, currentJSON, res) ==
  IF res.ok THEN res.out ELSE objectJSON

\* currentJSON after one iteration of the loop of RunScriptsSequentially
\* (objectJSON is the function's argument)
NextJSON(objectJSON, currentJSON, res) == IF res.ok THEN res.out ELSE currentJSON

\* a loop that stops at the first failing script
AfterScriptBreak(idx, n, res) == IF res.ok THEN idx + 1 ELSE n + 1

\* the index of the next script after one iteration over n scripts: the
\* loop continues whether the script failed or not
AfterScript(idx, n, res) == idx + 1

\* a pipeline that reports an error when a script failed
PipelineReturnStrict(currentJSON, failed) == [json |-> currentJSON, err |-> failed > 0]

\* what RunScriptsSequentially returns after its loop, with failCount
\* scripts failed: (currentJSON, nil)
PipelineReturn(currentJSON, failed) == [json |-> currentJSON, err |-> FALSE]

\* a pipeline that re-encodes its argument before the first script
EntryJSONNormalised(objectJSON) ==
  IF UnmarshalOk(objectJSON) THEN Marshal(Unmarshal(objectJSON)) ELSE objectJSON

\* currentJSON := objectJSON, before the loop of RunScriptsSequentially
EntryJSON(objectJSON) == objectJSON

\* a loop that forgets to count the failures
NextFailCountOmitted(failed, res) == failed

\* failCount after one iteration of the loop
NextFailCount(failed, res) == IF res.ok THEN failed ELSE failed + 1

\* a loop that forgets to count the successes
NextSuccessCountOmitted(succeeded, res) == succeeded

\* successCount after one iteration of the loop
NextSuccessCount(succeeded, res) == IF res.ok THEN succeeded + 1 ELSE succeeded

\* the orders in which a range over a map with these keys can produce them
Orders(keys) ==
  { s \in [1..Cardinality(keys) -> keys] : \A k \in keys : \E i \in DOMAIN s : s[i] = k }

\* ---------------------------------------------------------------- webhook
NoPatch == [present |-> FALSE, op |-> "", path |-> "", value |-> Tree("ok", NilAnnotations, << >>)]

\* createJSONPatch: one replace operation of the path "/" with the whole
\* modified object; an error when either text is not JSON
CreateJSONPatchOk(original, modified) == UnmarshalOk(original) /\ UnmarshalOk(modified)
CreateJSONPatch(original, modified) ==
  [present |-> TRUE, op |-> "replace", path |-> "/", value |-> Unmarshal(modified)]

Response(allowed, message, patchType, patch) ==
  [allowed |-> allowed, message |-> message, patchType |-> patchType,
   patch |-> patch, uid |-> ""]

\* response := &admissionv1.AdmissionResponse{Allowed: true}
DefaultResponse == Response(TRUE, "", "", NoPatch)

\* a handler that lets an object through when it cannot parse it
ParseErrorResponseOpen == DefaultResponse

\* handleAdmissionRequest, the object's metadata cannot be parsed
ParseErrorResponse == Response(FALSE, "failed to parse object metadata", "", NoPatch)

\* a handler that lets the request through when the scripts cannot be loaded
LoadErrorResponseOpen == DefaultResponse

\* handleAdmissionRequest, LoadScriptsFromAnnotations returned an error
LoadErrorResponse == Response(FALSE, "failed to load scripts", "", NoPatch)

\* a comparison written the wrong way round
ModifiedInverted(raw, modifiedJSON) == modifiedJSON = raw

\* string(modifiedJSON) != string(req.Object.Raw)
Modified(raw, modifiedJSON) == modifiedJSON # raw

\* a mutating branch that sets the patch type before it compares
MutatingResponseTypeFirst(raw, run) ==
  IF run.err THEN Response(FALSE, "failed to execute scripts", "", NoPatch)
  ELSE IF Modified(raw, run.json) /\ CreateJSONPatchOk(raw, run.json)
       THEN Response(TRUE, "", "JSONPatch", CreateJSONPatch(raw, run.json))
       ELSE Response(TRUE, "", "JSONPatch", NoPatch)

\* handleAdmissionRequest, mutating branch
MutatingResponse(raw, run) ==
  IF run.err THEN Response(FALSE, "failed to execute scripts", "", NoPatch)
  ELSE IF Modified(raw, run.json)
       THEN IF ~CreateJSONPatchOk(raw, run.json)
            THEN Response(FALSE, "failed to create patch", "JSONPatch", NoPatch)
            ELSE Response(TRUE, "", "JSONPatch", CreateJSONPatch(raw, run.json))
  ELSE DefaultResponse

\* a handler whose validating branch is never taken
ValidatingResponseAsMutating(raw, run) == MutatingResponse(raw, run)

\* handleAdmissionRequest, validating branch: the result and the error of
\* the pipeline are ignored
ValidatingResponse(raw, run) == Response(TRUE, "", "", NoPatch)

\* a handler without the len(scripts) == 0 shortcut
HasScriptsAlways(m) == TRUE

\* len(scripts) != 0
HasScripts(m) == DOMAIN m # {}


\* ---------------------------------------------------------------- state
VARIABLES
  webhookType,    \* WebhookHandler.webhookType
  pc,             \* where the serving of the request stands
  request,        \* the HTTP request being served
  httpStatus,     \* the status ServeHTTP answered with, 0 before it answers
  response,       \* the AdmissionResponse of handleAdmissionRequest
  configMapRefs,  \* LoadScriptsFromAnnotations: strings.Split(annotation, ",")
  refIdx,         \* LoadScriptsFromAnnotations: index of the next reference
  scripts,        \* the map scriptName -> scriptContent being loaded, then run
  loadErr,        \* LoadScriptsFromAnnotations returned an error
  fetched,        \* the ConfigMap Get calls made, in order
  sortedNames,    \* RunScriptsSequentially: the sorted script names
  runIdx,         \* RunScriptsSequentially: index of the next script
  currentJSON,    \* RunScriptsSequentially: currentJSON
  successCount,   \* RunScriptsSequentially: successCount
  failCount,      \* RunScriptsSequentially: failCount
  runResult,      \* what RunScriptsSequentially returned
  calls,          \* the RunScript calls made, in order, with their results
  pipelineRuns,   \* how many times RunScriptsSequentially was entered
  exitCode,       \* runExec: the exit status of the command, -1 while it runs
  stdout,         \* runExec: the document printed
  stderr,         \* runExec: the error message printed
  vmPc,           \* per goroutine: where its call of RunScript stands
  vmScripts,      \* per goroutine: the script bodies of its pipeline, in order
  vmInput,        \* per goroutine: the objectJSON its scripts are given
  vmIdx,          \* per goroutine: index of the script being run
  vmErr,          \* per goroutine: the error the current RunScript call returns
  L,              \* per goroutine: its lua.LState objects
  typeRegistry,   \* ScriptRunner.typeRegistry, one per handler
  vmCalls,        \* per goroutine: the RunScript calls that returned
  ctxDone,        \* per goroutine: where it stood when its request was cancelled
  result          \* ParseAnnotation: the pairs it returned

vars ==
  << webhookType, pc, request, httpStatus, response, configMapRefs, refIdx,
     scripts, loadErr, fetched, sortedNames, runIdx, currentJSON,
     successCount, failCount, runResult, calls, pipelineRuns,
     exitCode, stdout, stderr,
     vmPc, vmScripts, vmInput, vmIdx, vmErr, L, typeRegistry, vmCalls, ctxDone,
     result >>

execVars == << exitCode, stdout, stderr >>
vmVars == << vmPc, vmScripts, vmInput, vmIdx, vmErr, L, typeRegistry, vmCalls, ctxDone >>
requestVars == << webhookType, pc, request, httpStatus, response >>
requestVarsButPc == << webhookType, request, httpStatus, response >>
loaderVars == << configMapRefs, refIdx, scripts, loadErr, fetched >>
runnerVars ==
  << sortedNames, runIdx, currentJSON, successCount, failCount, runResult,
     calls, pipelineRuns >>

NoScripts == [n \in {} |-> "noop"]

\* the requests one handler serves at the same time, each on a goroutine of
\* its own (net/http)
Goroutines == {"g1", "g2"}

\* the interpreters of a goroutine: how many are open, and the value of the
\* global variable `counter` in the one created last (0 is nil)
LState(live, counter) == [live |-> live, counter |-> counter]
NoState == LState(0, 0)

\* glua.NewTypeRegistry(): nothing registered; writers are the goroutines
\* that called Register on it
EmptyRegistry == [types |-> {}, writers |-> {}]

\* the request's context is not done
NotCancelled == [done |-> FALSE, pc |-> "idle", idx |-> 0]

\* NewWebhookHandler: main registers one handler per webhook type
Init ==
  /\ webhookType \in {"mutating", "validating"}
  /\ pc = "idle"
  /\ request = HttpRequest("GET", "review", NoObject)
  /\ httpStatus = 0
  /\ response = DefaultResponse
  /\ configMapRefs = << >>
  /\ refIdx = 1
  /\ scripts = NoScripts
  /\ loadErr = FALSE
  /\ fetched = << >>
  /\ sortedNames = << >>
  /\ runIdx = 1
  /\ currentJSON = NoBytes
  /\ successCount = 0
  /\ failCount = 0
  /\ runResult = [json |-> NoBytes, err |-> FALSE]
  /\ calls = << >>
  /\ pipelineRuns = 0
  /\ exitCode = -1
  /\ stdout = NoBytes
  /\ stderr = ""
  /\ vmPc = [g \in Goroutines |-> "idle"]
  /\ vmScripts = [g \in Goroutines |-> << >>]
  /\ vmInput = [g \in Goroutines |-> NoBytes]
  /\ vmIdx = [g \in Goroutines |-> 1]
  /\ vmErr = [g \in Goroutines |-> ""]
  /\ L = [g \in Goroutines |-> NoState]
  /\ typeRegistry = EmptyRegistry
  /\ vmCalls = [g \in Goroutines |-> << >>]
  /\ ctxDone = [g \in Goroutines |-> NotCancelled]
  /\ result = << >>

\* ---------------------------------------------------------------- ServeHTTP
\* a request reaches ServeHTTP
Receive ==
  /\ pc = "idle"
  /\ \E r \in Requests : request' = r
  /\ pc' = "serve"
  /\ UNCHANGED << result, execVars, vmVars, webhookType, httpStatus, response, loaderVars, runnerVars >>

\* a handler without the method check
MethodAllowedAny(method) == TRUE

\* r.Method == http.MethodPost
MethodAllowed(method) == method = "POST"

\* ServeHTTP: r.Method != http.MethodPost
RejectMethod ==
  /\ pc = "serve"
  /\ ~MethodAllowed(request.method)
  /\ httpStatus' = 405
  /\ pc' = "done"
  /\ UNCHANGED << result, execVars, vmVars, webhookType, request, response, loaderVars, runnerVars >>

\* ServeHTTP: the body does not decode as an AdmissionReview
RejectBody ==
  /\ pc = "serve"
  /\ MethodAllowed(request.method)
  /\ request.body = "undecodable"
  /\ httpStatus' = 400
  /\ pc' = "done"
  /\ UNCHANGED << result, execVars, vmVars, webhookType, request, response, loaderVars, runnerVars >>

\* ServeHTTP: the review has no request; handleAdmissionRequest dereferences
\* the nil pointer (req.Kind.Kind) and the goroutine panics: no answer
PanicNilRequest ==
  /\ pc = "serve"
  /\ MethodAllowed(request.method)
  /\ request.body = "norequest"
  /\ pc' = "panic"
  /\ UNCHANGED << result, execVars, vmVars, webhookType, request, httpStatus, response, loaderVars, runnerVars >>

\* ServeHTTP calls handleAdmissionRequest
Decode ==
  /\ pc = "serve"
  /\ MethodAllowed(request.method)
  /\ request.body = "review"
  /\ response' = DefaultResponse
  /\ pc' = "parse"
  /\ UNCHANGED << result, execVars, vmVars, webhookType, request, httpStatus, loaderVars, runnerVars >>

\* handleAdmissionRequest: json.Unmarshal(req.Object.Raw, &metadata) fails
ParseFail ==
  /\ pc = "parse"
  /\ ~UnmarshalMetadataOk(request.object)
  /\ response' = ParseErrorResponse
  /\ pc' = "respond"
  /\ UNCHANGED << result, execVars, vmVars, webhookType, request, httpStatus, loaderVars, runnerVars >>

\* handleAdmissionRequest calls LoadScriptsFromAnnotations, which returns
\* (nil, nil) at once when there is no annotation map or no scripts key
LoadBegin ==
  /\ pc = "parse"
  /\ UnmarshalMetadataOk(request.object)
  /\ LET ann == Unmarshal(request.object).annotations IN
       IF ann.kind \in {"nil", "nokey"}
       THEN /\ pc' = "loaded"
            /\ UNCHANGED configMapRefs
       ELSE /\ pc' = "loading"
            /\ configMapRefs' = Split(ann.value, ",")
  /\ refIdx' = 1
  /\ scripts' = NoScripts
  /\ loadErr' = FALSE
  /\ UNCHANGED << result, execVars, vmVars, webhookType, request, httpStatus, response, fetched, runnerVars >>


\* ---------------------------------------------------------------- scriptloader
\* a helper that does not trim the two parts of a reference
RECURSIVE ParseUntrimmedLoop(_)
ParseUntrimmedLoop(refs) ==
  IF refs = << >> THEN << >>
  ELSE LET ref   == TrimSpace(Head(refs))
           parts == Split(ref, "/")
       IN (IF ref = << >> \/ Len(parts) # 2
           THEN << >>
           ELSE << [Namespace |-> parts[1], Name |-> parts[2]] >>)
          \o ParseUntrimmedLoop(Tail(refs))

\* ParseAnnotation, its loop over refs: an entry is trimmed, skipped when
\* empty or when splitting at "/" does not give two parts, and appended
\* with both parts trimmed otherwise
RECURSIVE ParseAnnotationLoop(_)
ParseAnnotationLoop(refs) ==
  IF refs = << >> THEN << >>
  ELSE LET ref   == TrimSpace(Head(refs))
           parts == Split(ref, "/")
       IN (IF ref = << >> \/ Len(parts) # 2
           THEN << >>
           ELSE << [Namespace |-> TrimSpace(parts[1]), Name |-> TrimSpace(parts[2])] >>)
          \o ParseAnnotationLoop(Tail(refs))

ParseAnnotationUntrimmed(annotation) == ParseUntrimmedLoop(Split(annotation, ","))

\* ParseAnnotation(annotation)
ParseAnnotation(annotation) == ParseAnnotationLoop(Split(annotation, ","))

\* a parser that takes the first two parts of an entry with more separators
ParseRefLenient(entry) ==
  LET ref   == TrimSpace(entry)
      parts == Split(ref, "/")
  IN IF ref = << >> \/ Len(parts) < 2
     THEN [valid |-> FALSE, namespace |-> << >>, name |-> << >>]
     ELSE [valid |-> TRUE, namespace |-> TrimSpace(parts[1]), name |-> TrimSpace(parts[2])]

\* LoadScriptsFromAnnotations, the parsing of one entry: trimmed, skipped
\* when empty or when splitting at "/" does not give exactly two parts
ParseRef(entry) ==
  LET ref   == TrimSpace(entry)
      parts == Split(ref, "/")
  IN IF ref = << >> \/ Len(parts) # 2
     THEN [valid |-> FALSE, namespace |-> << >>, name |-> << >>]
     ELSE [valid |-> TRUE, namespace |-> TrimSpace(parts[1]), name |-> TrimSpace(parts[2])]

\* scripts[scriptName] = scriptContent
PutScript(m, scriptName, scriptContent) ==
  [n \in (DOMAIN m) \cup {scriptName} |-> IF n = scriptName THEN scriptContent ELSE m[n]]

\* a loader that stores whatever the ConfigMap gave, content or not
AfterGetKeepEmpty(m, scriptName, got) == PutScript(m, scriptName, got)

\* the script map after the ConfigMap of a reference was fetched: a
\* ConfigMap without script.lua or with an empty one adds nothing
AfterGet(m, scriptName, got) ==
  IF got \in {"nokey", "empty"} THEN m ELSE PutScript(m, scriptName, got)

\* a loader that hands back what it had loaded before the failing fetch
LoadResultPartial(m) == m

\* the map LoadScriptsFromAnnotations returns beside an error: nil, whatever
\* was loaded before
LoadResultOnError(m) == NoScripts

\* one iteration of the loop of LoadScriptsFromAnnotations over an entry
\* that is skipped without a fetch
LoadSkip ==
  /\ pc = "loading"
  /\ refIdx <= Len(configMapRefs)
  /\ ~ParseRef(configMapRefs[refIdx]).valid
  /\ refIdx' = refIdx + 1
  /\ UNCHANGED << result, execVars, vmVars, webhookType, pc, request, httpStatus, response, configMapRefs,
                  scripts, loadErr, fetched, runnerVars >>

\* one iteration of the loop over a well-formed entry whose ConfigMap is
\* fetched
LoadFetch ==
  /\ pc = "loading"
  /\ refIdx <= Len(configMapRefs)
  /\ LET r == ParseRef(configMapRefs[refIdx])
         scriptName == ScriptName(r.namespace, r.name)
     IN /\ r.valid
        /\ \E got \in GetResults :
             /\ fetched' = Append(fetched, [name |-> scriptName, got |-> got])
             /\ IF got = "notfound"
                THEN /\ scripts' = LoadResultOnError(scripts)
                     /\ loadErr' = TRUE
                     /\ pc' = "loaded"
                     /\ UNCHANGED refIdx
                ELSE /\ scripts' = AfterGet(scripts, scriptName, got)
                     /\ refIdx' = refIdx + 1
                     /\ UNCHANGED << loadErr, pc >>
  /\ UNCHANGED << result, execVars, vmVars, webhookType, request, httpStatus, response, configMapRefs, runnerVars >>

\* the loop of LoadScriptsFromAnnotations ends: return scripts, nil
LoadEnd ==
  /\ pc = "loading"
  /\ refIdx > Len(configMapRefs)
  /\ pc' = "loaded"
  /\ UNCHANGED << result, execVars, vmVars, webhookType, request, httpStatus, response, loaderVars, runnerVars >>

\* ---------------------------------------------------------------- handleAdmissionRequest
\* err != nil after LoadScriptsFromAnnotations
LoadFailed ==
  /\ pc = "loaded"
  /\ loadErr
  /\ response' = LoadErrorResponse
  /\ pc' = "respond"
  /\ UNCHANGED << result, execVars, vmVars, webhookType, request, httpStatus, loaderVars, runnerVars >>

\* len(scripts) == 0: the request is allowed as it is
NoScriptsFound ==
  /\ pc = "loaded"
  /\ ~loadErr
  /\ ~HasScripts(scripts)
  /\ pc' = "respond"
  /\ UNCHANGED << result, execVars, vmVars, webhookType, request, httpStatus, response, loaderVars, runnerVars >>

\* RunScriptsSequentially(scripts, request.object) up to its loop: the names
\* are collected in the map's iteration order and sorted
RunEnter ==
  /\ \E names \in Orders(DOMAIN scripts) : sortedNames' = SortNames(names)
  /\ runIdx' = 1
  /\ currentJSON' = EntryJSON(request.object)
  /\ successCount' = 0
  /\ failCount' = 0
  /\ pipelineRuns' = pipelineRuns + 1
  /\ pc' = "running"
  /\ UNCHANGED << result, execVars, vmVars, webhookType, request, httpStatus, response, loaderVars, runResult, calls >>

\* either branch of handleAdmissionRequest calls
\* RunScriptsSequentially(scripts, req.Object.Raw)
RunBegin ==
  /\ pc = "loaded"
  /\ ~loadErr
  /\ HasScripts(scripts)
  /\ RunEnter

\* one iteration of the loop of RunScriptsSequentially
RunStep ==
  /\ pc = "running"
  /\ runIdx <= Len(sortedNames)
  /\ \E tr \in TranslatorOutcomes :
       LET name == sortedNames[runIdx]
           res  == RunScript(name, scripts[name], currentJSON, tr)
       IN /\ calls' = Append(calls, [name |-> name, input |-> currentJSON,
                                     ok |-> res.ok, output |-> res.out, err |-> res.err])
          /\ currentJSON' = NextJSON(request.object, currentJSON, res)
          /\ successCount' = NextSuccessCount(successCount, res)
          /\ failCount' = NextFailCount(failCount, res)
          /\ runIdx' = AfterScript(runIdx, Len(sortedNames), res)
  /\ UNCHANGED << result, execVars, vmVars, webhookType, pc, request, httpStatus, response, loaderVars,
                  sortedNames, runResult, pipelineRuns >>

\* RunScriptsSequentially returns
RunEnd ==
  /\ pc = "running"
  /\ runIdx > Len(sortedNames)
  /\ runResult' = PipelineReturn(currentJSON, failCount)
  /\ pc' = "ran"
  /\ UNCHANGED << result, execVars, vmVars, webhookType, request, httpStatus, response, loaderVars,
                  sortedNames, runIdx, currentJSON, successCount, failCount,
                  calls, pipelineRuns >>

\* h.webhookType == "validating"
DecideValidating ==
  /\ pc = "ran"
  /\ webhookType = "validating"
  /\ response' = ValidatingResponse(request.object, runResult)
  /\ pc' = "respond"
  /\ UNCHANGED << result, execVars, vmVars, webhookType, request, httpStatus, loaderVars, runnerVars >>

\* the mutating branch
DecideMutating ==
  /\ pc = "ran"
  /\ webhookType # "validating"
  /\ response' = MutatingResponse(request.object, runResult)
  /\ pc' = "respond"
  /\ UNCHANGED << result, execVars, vmVars, webhookType, request, httpStatus, loaderVars, runnerVars >>

\* ServeHTTP sets the UID of the response and sends the review
Respond ==
  /\ pc = "respond"
  /\ response' = [response EXCEPT !.uid = request.uid]
  /\ httpStatus' = 200
  /\ pc' = "done"
  /\ UNCHANGED << result, execVars, vmVars, webhookType, request, loaderVars, runnerVars >>

Next ==
  \/ Receive
  \/ RejectMethod
  \/ RejectBody
  \/ PanicNilRequest
  \/ Decode
  \/ ParseFail
  \/ LoadBegin
  \/ LoadSkip
  \/ LoadFetch
  \/ LoadEnd
  \/ LoadFailed
  \/ NoScriptsFound
  \/ RunBegin
  \/ RunStep
  \/ RunEnd
  \/ DecideValidating
  \/ DecideMutating
  \/ Respond

Spec == Init /\ [][Next]_vars

\* ---------------------------------------------------------------- direct calls
\* RunScriptsSequentially called directly, as the tests and the exec command
\* call it: any map over these names, and any text as the object
ScriptNames ==
  { << "n", "/", "b" >>, << "n", "/", "a" >>, << "m", "/", "c" >> }

ScriptMaps == UNION { [D -> ScriptKinds] : D \in SUBSET ScriptNames }

DirectInputs ==
  { Bytes(f, Tree("ok", NilAnnotations, << >>)) : f \in {"compact", "pretty", "invalid"} }

\* a caller builds the arguments of RunScriptsSequentially
DirectCall ==
  /\ pc = "idle"
  /\ \E m \in ScriptMaps : scripts' = m
  /\ \E o \in DirectInputs : request' = HttpRequest("POST", "review", o)
  /\ pc' = "called"
  /\ UNCHANGED << result, execVars, vmVars, webhookType, httpStatus, response, configMapRefs, refIdx,
                  loadErr, fetched, runnerVars >>

\* the caller calls RunScriptsSequentially(scripts, object)
DirectBegin ==
  /\ pc = "called"
  /\ RunEnter

NextRun ==
  \/ DirectCall
  \/ DirectBegin
  \/ RunStep
  \/ RunEnd

SpecRun == Init /\ [][NextRun]_vars

\* ---------------------------------------------------------------- annotation parsing
\* the loader on every annotation value of up to MaxAnnLen characters
ParseAlphabet == {"a", "/", ",", " "}

ParseAnnotationValues == UNION { [1..k -> ParseAlphabet] : k \in 0..MaxAnnLen }

\* a request whose object carries one of these annotation values
ReceiveParse ==
  /\ pc = "idle"
  /\ \E v \in ParseAnnotationValues :
       request' = HttpRequest("POST", "review",
                    Bytes("compact", Tree("ok", [kind |-> "value", value |-> v], << >>)))
  /\ pc' = "serve"
  /\ UNCHANGED << result, execVars, vmVars, webhookType, httpStatus, response, loaderVars, runnerVars >>

\* the same annotation value is handed to ParseAnnotation once the loader
\* has returned
ParseAnnotationCall ==
  /\ pc = "loaded"
  /\ result' = ParseAnnotation(Unmarshal(request.object).annotations.value)
  /\ pc' = "parsed"
  /\ UNCHANGED << execVars, vmVars, webhookType, request, httpStatus, response,
                  loaderVars, runnerVars >>

NextParse ==
  \/ ReceiveParse
  \/ Decode
  \/ LoadBegin
  \/ LoadSkip
  \/ LoadFetch
  \/ LoadEnd
  \/ ParseAnnotationCall

SpecParse == Init /\ [][NextParse]_vars

\* the goroutine that calls RunScriptsSequentially is scheduled as long as
\* it can take a step, and every script returns
SpecRunFair == SpecRun /\ WF_vars(NextRun)

\* ---------------------------------------------------------------- interpreters
\* RunScript step by step, for the requests that one handler, and so one
\* ScriptRunner, serves at the same time.  The scripts of these requests
\* set the global variable `counter`:
\*   counter = (counter or 0) + 1      and, for "error", then  error("x")
VmScriptKinds == {"counter", "error"}

VmPipelines == UNION { [1..k -> VmScriptKinds] : k \in 1..MaxPipeline }

VmInputs == { Bytes(f, Tree("ok", NilAnnotations, << >>)) : f \in {"compact", "invalid"} }

\* a runner that takes its interpreter from a pool, globals included
NewStatePooled(prev) == LState(prev.live + 1, prev.counter)

\* L := lua.NewState(): one more interpreter, with no global set
NewState(prev) == LState(prev.live + 1, 0)

\* a runner that closes the interpreter on the successful path only
CloseOnSuccess(l, err) == IF err = "" THEN LState(l.live - 1, l.counter) ELSE l

\* defer L.Close(): runs on every return of RunScript
Close(l, err) == LState(l.live - 1, l.counter)

\* L.DoString(scriptContent) on these scripts
DoString(scriptContent, l) ==
  [counter |-> l.counter + 1,
   err     |-> IF scriptContent = "error" THEN "script" ELSE ""]

\* r.typeRegistry.Register(obj), called by goroutine g
Register(reg, g) ==
  [types |-> reg.types \cup {"map[string]interface {}"}, writers |-> reg.writers \cup {g}]

\* a request with scripts reaches the handler on goroutine g
VmServe(g) ==
  /\ vmPc[g] = "idle"
  /\ \E sc \in VmPipelines : vmScripts' = [vmScripts EXCEPT ![g] = sc]
  /\ \E o \in VmInputs : vmInput' = [vmInput EXCEPT ![g] = o]
  /\ vmIdx' = [vmIdx EXCEPT ![g] = 1]
  /\ vmPc' = [vmPc EXCEPT ![g] = "call"]
  /\ UNCHANGED << result, execVars, requestVars, loaderVars, runnerVars,
                  vmErr, L, typeRegistry, vmCalls, ctxDone >>

\* RunScript is entered for the next script: lua.NewState()
VmNewState(g) ==
  /\ vmPc[g] = "call"
  /\ vmIdx[g] <= Len(vmScripts[g])
  /\ L' = [L EXCEPT ![g] = NewState(L[g])]
  /\ vmErr' = [vmErr EXCEPT ![g] = ""]
  /\ vmPc' = [vmPc EXCEPT ![g] = "unmarshal"]
  /\ UNCHANGED << result, execVars, requestVars, loaderVars, runnerVars,
                  vmScripts, vmInput, vmIdx, typeRegistry, vmCalls, ctxDone >>

\* json.Unmarshal(objectJSON, &obj)
VmUnmarshal(g) ==
  /\ vmPc[g] = "unmarshal"
  /\ IF UnmarshalOk(vmInput[g])
     THEN /\ vmPc' = [vmPc EXCEPT ![g] = "register"]
          /\ UNCHANGED vmErr
     ELSE /\ vmPc' = [vmPc EXCEPT ![g] = "close"]
          /\ vmErr' = [vmErr EXCEPT ![g] = "unmarshal"]
  /\ UNCHANGED << result, execVars, requestVars, loaderVars, runnerVars,
                  vmScripts, vmInput, vmIdx, L, typeRegistry, vmCalls, ctxDone >>

\* r.typeRegistry.Register(obj)
VmRegister(g) ==
  /\ vmPc[g] = "register"
  /\ typeRegistry' = Register(typeRegistry, g)
  /\ vmPc' = [vmPc EXCEPT ![g] = "toLua"]
  /\ UNCHANGED << result, execVars, requestVars, loaderVars, runnerVars,
                  vmScripts, vmInput, vmIdx, vmErr, L, vmCalls, ctxDone >>

\* r.translator.ToLua(L, obj) and L.SetGlobal("object", luaValue)
VmToLua(g) ==
  /\ vmPc[g] = "toLua"
  /\ \E tr \in {"ok", "toLuaErr"} :
       IF tr = "ok"
       THEN /\ vmPc' = [vmPc EXCEPT ![g] = "doString"]
            /\ UNCHANGED vmErr
       ELSE /\ vmPc' = [vmPc EXCEPT ![g] = "close"]
            /\ vmErr' = [vmErr EXCEPT ![g] = "toLua"]
  /\ UNCHANGED << result, execVars, requestVars, loaderVars, runnerVars,
                  vmScripts, vmInput, vmIdx, L, typeRegistry, vmCalls, ctxDone >>

\* the request's context is done while the script runs: the client went
\* away or the API server's timeout passed
VmCancel(g) ==
  /\ vmPc[g] = "doString"
  /\ ~ctxDone[g].done
  /\ ctxDone' = [ctxDone EXCEPT ![g] = [done |-> TRUE, pc |-> vmPc[g], idx |-> vmIdx[g]]]
  /\ UNCHANGED << result, execVars, requestVars, loaderVars, runnerVars,
                  vmPc, vmScripts, vmInput, vmIdx, vmErr, L, typeRegistry, vmCalls >>

\* L.DoString(scriptContent) runs to its end; nothing in it looks at the
\* request's context
VmDoString(g) ==
  /\ vmPc[g] = "doString"
  /\ LET r == DoString(vmScripts[g][vmIdx[g]], L[g])
     IN /\ L' = [L EXCEPT ![g] = LState(L[g].live, r.counter)]
        /\ vmErr' = [vmErr EXCEPT ![g] = r.err]
        /\ vmPc' = [vmPc EXCEPT ![g] = IF r.err = "" THEN "fromLua" ELSE "close"]
  /\ UNCHANGED << result, execVars, requestVars, loaderVars, runnerVars,
                  vmScripts, vmInput, vmIdx, typeRegistry, vmCalls, ctxDone >>

\* r.translator.FromLua(L, modifiedObj, &goObj) and json.Marshal(goObj)
VmFromLua(g) ==
  /\ vmPc[g] = "fromLua"
  /\ \E tr \in {"ok", "fromLuaErr"} :
       vmErr' = [vmErr EXCEPT ![g] = IF tr = "ok" THEN "" ELSE "fromLua"]
  /\ vmPc' = [vmPc EXCEPT ![g] = "close"]
  /\ UNCHANGED << result, execVars, requestVars, loaderVars, runnerVars,
                  vmScripts, vmInput, vmIdx, L, typeRegistry, vmCalls, ctxDone >>

\* RunScript returns: the deferred L.Close() runs, and the loop of
\* RunScriptsSequentially goes on to the next script whatever the error
VmClose(g) ==
  /\ vmPc[g] = "close"
  /\ L' = [L EXCEPT ![g] = Close(L[g], vmErr[g])]
  /\ vmCalls' = [vmCalls EXCEPT ![g] =
                   Append(@, [script |-> vmScripts[g][vmIdx[g]],
                              seen   |-> L[g].counter,
                              err    |-> vmErr[g]])]
  /\ vmIdx' = [vmIdx EXCEPT ![g] = @ + 1]
  /\ vmPc' = [vmPc EXCEPT ![g] = "call"]
  /\ UNCHANGED << result, execVars, requestVars, loaderVars, runnerVars,
                  vmScripts, vmInput, vmErr, typeRegistry, ctxDone >>

\* RunScriptsSequentially returns and the handler answers
VmReturn(g) ==
  /\ vmPc[g] = "call"
  /\ vmIdx[g] > Len(vmScripts[g])
  /\ vmPc' = [vmPc EXCEPT ![g] = "returned"]
  /\ UNCHANGED << result, execVars, requestVars, loaderVars, runnerVars,
                  vmScripts, vmInput, vmIdx, vmErr, L, typeRegistry, vmCalls, ctxDone >>

NextVm ==
  \E g \in Goroutines :
    \/ VmServe(g)
    \/ VmNewState(g)
    \/ VmUnmarshal(g)
    \/ VmRegister(g)
    \/ VmToLua(g)
    \/ VmCancel(g)
    \/ VmDoString(g)
    \/ VmFromLua(g)
    \/ VmClose(g)
    \/ VmReturn(g)

\* the handler the concurrent requests reach: the runner does not look at
\* the webhook type
InitVm == Init /\ webhookType = "mutating"

SpecVm == InitVm /\ [][NextVm]_vars

\* ---------------------------------------------------------------- exec
\* the path given with --script, which runExec uses as the script's name
ExecScriptName == << "a" >>

\* runExec reads the script file and the input
ExecRead ==
  /\ pc = "idle"
  /\ \E k \in ScriptKinds : scripts' = [n \in {ExecScriptName} |-> k]
  /\ \E o \in DirectInputs : request' = HttpRequest("POST", "review", o)
  /\ pc' = "execValidate"
  /\ UNCHANGED << result, execVars, vmVars, webhookType, httpStatus, response,
                  configMapRefs, refIdx, loadErr, fetched, runnerVars >>

\* runExec: the input is not JSON
ExecInvalidInput ==
  /\ pc = "execValidate"
  /\ ~UnmarshalOk(request.object)
  /\ stderr' = "Error: input is not valid JSON"
  /\ exitCode' = 1
  /\ pc' = "exited"
  /\ UNCHANGED << result, stdout, vmVars, requestVarsButPc, loaderVars, runnerVars >>

\* runExec calls RunScriptsSequentially(scripts, inputData)
ExecBegin ==
  /\ pc = "execValidate"
  /\ UnmarshalOk(request.object)
  /\ RunEnter

\* runExec after RunScriptsSequentially returned: the error is reported,
\* or the document is printed
ExecOutcome(input, run) ==
  IF run.err
  THEN [exitCode |-> 1, stdout |-> NoBytes, stderr |-> "Error executing script"]
  ELSE [exitCode |-> 0, stdout |-> run.json, stderr |-> ""]

ExecFinish ==
  /\ pc = "ran"
  /\ LET out == ExecOutcome(request.object, runResult)
     IN /\ exitCode' = out.exitCode
        /\ stdout' = out.stdout
        /\ stderr' = out.stderr
  /\ pc' = "exited"
  /\ UNCHANGED << result, vmVars, requestVarsButPc, loaderVars, runnerVars >>

NextExec ==
  \/ ExecRead
  \/ ExecInvalidInput
  \/ ExecBegin
  \/ RunStep
  \/ RunEnd
  \/ ExecFinish

SpecExec == Init /\ [][NextExec]_vars


\* ---------------------------------------------------------------- properties
\* the handler has built its response
Answered == pc \in {"respond", "done"}

\* RunScriptsSequentially was entered and has returned
PipelineReturned == pipelineRuns > 0 /\ pc \in {"ran", "respond", "done"}

\* LoadScriptsFromAnnotations has returned without an error
ScriptsLoaded ==
  /\ pc \in {"loaded", "running", "ran", "respond", "done"}
  /\ UnmarshalMetadataOk(request.object)
  /\ ~loadErr

\* the fetch of some ConfigMap failed
FetchFailed == \E i \in DOMAIN fetched : fetched[i].got = "notfound"

\* the indices of the RunScript calls that succeeded
OkCalls == { i \in DOMAIN calls : calls[i].ok }

\* the largest element of a non-empty set of numbers
Max(S) == CHOOSE x \in S : \A y \in S : y <= x

\* C1: in RunScriptsSequentially the first script is given the function's
\* argument, and every later script is given the output of the script before
\* it when that one succeeded and the input of the script before it when
\* that one failed; the same holds of the document the loop holds after its
\* last call.
C1_Chaining ==
  /\ Len(calls) > 0 => calls[1].input = request.object
  /\ \A i \in 1..(Len(calls) - 1) :
       calls[i + 1].input = IF calls[i].ok THEN calls[i].output ELSE calls[i].input
  /\ (pc \in {"running", "ran"} /\ Len(calls) > 0) =>
       currentJSON = IF calls[Len(calls)].ok THEN calls[Len(calls)].output
                     ELSE calls[Len(calls)].input

\* a script that changed the document, then a script that failed, then a
\* script that was given the changed document
C1_Witness ==
  /\ Len(calls) = 3
  /\ calls[1].ok /\ calls[1].output # calls[1].input
  /\ ~calls[2].ok
  /\ calls[3].input = calls[1].output
  /\ calls[3].input # request.object

C3_FailOpen ==
  PipelineReturned =>
    /\ ~runResult.err
    /\ Len(calls) = Cardinality(DOMAIN scripts)
    /\ \A n \in DOMAIN scripts : \E i \in DOMAIN calls : calls[i].name = n

\* the first script failed in the script itself, the second in the
\* translation, and the third still ran and succeeded
C3_Witness ==
  /\ PipelineReturned
  /\ Len(calls) = 3
  /\ calls[1].err = "script"
  /\ calls[2].err \in {"toLua", "fromLua"}
  /\ calls[3].ok

\* C4: the document RunScriptsSequentially returns is the output of the last
\* call that succeeded, and the function's argument when no call succeeded.
C4_FinalDocument ==
  PipelineReturned =>
    runResult.json = IF OkCalls # {} THEN calls[Max(OkCalls)].output ELSE request.object

\* the last script failed after an earlier one had changed the document
C4_Witness ==
  /\ PipelineReturned
  /\ Len(calls) = 3
  /\ OkCalls = {2}
  /\ runResult.json # request.object

C5_WitnessAllFail ==
  /\ webhookType = "validating"
  /\ pc = "done"
  /\ Len(calls) = 2
  /\ OkCalls = {}
  /\ response.allowed

\* C6: in mutating mode, when the document the pipeline returned is not the
\* original text, the response allows the request and carries a patch of
\* type JSONPatch.
C6_MutatingPatch ==
  (webhookType = "mutating" /\ Answered /\ PipelineReturned
     /\ runResult.json # request.object) =>
    /\ response.allowed
    /\ response.patch.present
    /\ response.patchType = "JSONPatch"
    /\ response.patch.value = Unmarshal(runResult.json)

\* mutating mode, a script appended to the object, the response is sent
C6_Witness ==
  /\ webhookType = "mutating"
  /\ pc = "done"
  /\ Unmarshal(runResult.json).order # << >>
  /\ response.patch.present

\* C7: in mutating mode, when the fetch of a ConfigMap fails, the response
\* denies the request with a message and without a patch, no script has
\* run and the pipeline was never entered.
C7_MutatingDenial ==
  (webhookType = "mutating" /\ Answered /\ FetchFailed) =>
    /\ ~response.allowed
    /\ response.message # ""
    /\ ~response.patch.present
    /\ response.patchType = ""
    /\ calls = << >>
    /\ pipelineRuns = 0

\* mutating mode, a first ConfigMap gave a script, the second could not be
\* fetched, the denial is sent
C7_Witness ==
  /\ webhookType = "mutating"
  /\ pc = "done"
  /\ Len(fetched) = 2
  /\ fetched[1].got = "append"
  /\ fetched[2].got = "notfound"
  /\ ~response.allowed

\* C8: when the scripts are loaded and there are none, the response allows
\* the request without patch, in both modes, and RunScriptsSequentially is
\* never entered.
C8_NoScripts ==
  (ScriptsLoaded /\ ~loadErr /\ DOMAIN scripts = {} /\ pc # "loaded") =>
    /\ pipelineRuns = 0
    /\ calls = << >>
    /\ Answered
    /\ response.allowed
    /\ ~response.patch.present
    /\ response.patchType = ""

\* the annotation names two references, both fetched and both without
\* content, and the request is answered
C8_Witness ==
  /\ pc = "done"
  /\ Len(fetched) = 2
  /\ fetched[1].got = "nokey"
  /\ fetched[2].got = "empty"
  /\ response.allowed

\* the object has no scripts annotation and the request is answered
C8_WitnessNoAnnotation ==
  /\ pc = "done"
  /\ UnmarshalMetadataOk(request.object)
  /\ Unmarshal(request.object).annotations.kind = "nokey"
  /\ response.allowed

C10_UnchangedNoPatch ==
  (webhookType = "mutating" /\ Answered /\ PipelineReturned
     /\ Unmarshal(runResult.json) = Unmarshal(request.object)) =>
    /\ response.allowed
    /\ ~response.patch.present
    /\ response.patchType = ""


\* the result of applying a JSON Patch operation to a document (RFC 6902
\* with the JSON Pointers of RFC 6901): the pointer "" is the whole
\* document; the pointer "/" is the member of the root whose key is the
\* empty string, which no document of the model has, and a replace of a
\* location that does not exist is an error
ApplyPatch(doc, patch) ==
  IF patch.op = "replace" /\ patch.path = ""
  THEN [ok |-> TRUE, doc |-> patch.value]
  ELSE [ok |-> FALSE, doc |-> doc]

\* C11: applying the patch of a response to the original object gives the
\* document the pipeline returned.
C11_PatchRoundTrip ==
  (Answered /\ response.patch.present) =>
    LET applied == ApplyPatch(Unmarshal(request.object), response.patch)
    IN applied.ok /\ applied.doc = Unmarshal(runResult.json)

\* C12 as stated: in validating mode a failed fetch of a ConfigMap does not
\* deny the request.
C12_ValidatingIgnoresFetchFailure ==
  (webhookType = "validating" /\ Answered /\ FetchFailed) => response.allowed

\* C12 as the code has it: in validating mode a failed fetch of a ConfigMap
\* denies the request with a message, no patch, and no script run, as in
\* mutating mode.
C12_ValidatingDeniesFetchFailure ==
  (webhookType = "validating" /\ Answered /\ FetchFailed) =>
    /\ ~response.allowed
    /\ response.message = "failed to load scripts"
    /\ ~response.patch.present
    /\ calls = << >>
    /\ pipelineRuns = 0

\* validating mode, the one referenced ConfigMap cannot be fetched, the
\* denial is sent
C12_Witness ==
  /\ webhookType = "validating"
  /\ pc = "done"
  /\ httpStatus = 200
  /\ Len(fetched) = 1
  /\ fetched[1].got = "notfound"
  /\ ~response.allowed

\* C13: in validating mode, when a script raised an error, the response
\* denies the request.
C13_ValidatingRejectsOnScriptError ==
  (webhookType = "validating" /\ Answered /\ PipelineReturned
     /\ \E i \in DOMAIN calls : calls[i].err = "script") =>
    ~response.allowed

\* ---------------------------------------------------------------- reference format
\* the number of separators in an entry
SlashCount(s) == Cardinality({ i \in DOMAIN s : s[i] = "/" })

\* an entry of the form namespace/name: trimmed, it has one separator
WellFormed(entry) == SlashCount(TrimSpace(entry)) = 1

\* the reference a well-formed entry stands for
RefOf(entry) ==
  LET t == TrimSpace(entry)
      k == CHOOSE i \in DOMAIN t : t[i] = "/"
  IN ScriptName(TrimSpace(SubSeq(t, 1, k - 1)), TrimSpace(SubSeq(t, k + 1, Len(t))))

\* ---------------------------------------------------------------- loader properties
\* the names of the ConfigMaps fetched so far, in order
FetchedNames == [i \in DOMAIN fetched |-> fetched[i].name]

\* LoadScriptsFromAnnotations is running or has returned
LoadEntered == pc \in {"loading", "loaded", "running", "ran", "respond", "done"}

\* C14: a reference whose ConfigMap has no script.lua key, or an empty one,
\* is dropped: as long as no fetch failed there is no error, the map holds
\* exactly the names for which some fetch gave a script text, and so it has
\* no entry for a name whose ConfigMap gave none, while every reference that
\* gave a text is loaded.
C14_EmptyScriptDropped ==
  (LoadEntered /\ ~FetchFailed) =>
    /\ ~loadErr
    /\ \A n \in DOMAIN scripts :
         \E i \in DOMAIN fetched : fetched[i].name = n /\ fetched[i].got \in ScriptKinds
    /\ \A i \in DOMAIN fetched :
         fetched[i].got \in ScriptKinds => fetched[i].name \in DOMAIN scripts

\* a ConfigMap without script.lua, one with an empty script.lua and one with
\* a script were fetched; only the last one is in the map returned
C14_Witness ==
  /\ pc = "loaded"
  /\ Len(fetched) = 3
  /\ fetched[1].got = "nokey"
  /\ fetched[2].got = "append"
  /\ fetched[3].got = "empty"
  /\ DOMAIN scripts = {fetched[2].name}
  /\ fetched[1].name \notin DOMAIN scripts
  /\ fetched[3].name \notin DOMAIN scripts

\* C15: a failed fetch ends the loading: it is the last fetch (the
\* references after it are not fetched), the loader returns an error and no
\* scripts, whatever was loaded before, and the pipeline is never run.
C15_FetchFailureAborts ==
  /\ \A i \in DOMAIN fetched : fetched[i].got = "notfound" => i = Len(fetched)
  /\ FetchFailed =>
       /\ pc \in {"loaded", "respond", "done"}
       /\ loadErr
       /\ scripts = NoScripts
       /\ refIdx <= Len(configMapRefs)
       /\ pipelineRuns = 0
       /\ calls = << >>

\* the first reference was loaded, the fetch of the second failed, and a
\* well-formed third reference was left alone
C15_Witness ==
  /\ pc = "done"
  /\ Len(configMapRefs) = 3
  /\ Len(fetched) = 2
  /\ fetched[1].got \in ScriptKinds
  /\ fetched[2].got = "notfound"
  /\ refIdx = 2
  /\ SlashCount(TrimSpace(configMapRefs[3])) = 1
  /\ scripts = NoScripts

\* the references of the entries, in order: an entry that is not of the
\* form namespace/name gives none
RECURSIVE ExpectedNames(_)
ExpectedNames(entries) ==
  IF entries = << >> THEN << >>
  ELSE (IF WellFormed(Head(entries)) THEN << RefOf(Head(entries)) >> ELSE << >>)
         \o ExpectedNames(Tail(entries))

\* C16: the ConfigMaps fetched are those of the comma-separated entries
\* that, trimmed, have the form namespace/name, in order; an empty entry or
\* one with no separator is passed over without an error, and the entries
\* after it are still fetched.  While the loop runs this holds of the entries
\* it has been through; an error comes from a failed fetch only.
C16_ResolvedReferences ==
  /\ pc = "loading" =>
       FetchedNames = ExpectedNames(SubSeq(configMapRefs, 1, refIdx - 1))
  /\ (pc = "loaded" /\ Unmarshal(request.object).annotations.kind = "value") =>
       IF FetchFailed
       THEN FetchedNames = ExpectedNames(SubSeq(configMapRefs, 1, refIdx))
       ELSE FetchedNames = ExpectedNames(Split(Unmarshal(request.object).annotations.value, ","))
  /\ loadErr => FetchFailed

\* the annotation "a,,a/a": a malformed entry and an empty one come before
\* a reference, which is loaded
C16_Witness ==
  /\ pc = "loaded"
  /\ Unmarshal(request.object).annotations.value = << "a", ",", ",", "a", "/", "a" >>
  /\ ~loadErr
  /\ FetchedNames = << << "a", "/", "a" >> >>
  /\ DOMAIN scripts = { << "a", "/", "a" >> }

\* ---------------------------------------------------------------- pipeline properties
\* C17: RunScriptsSequentially with an empty script map returns the bytes
\* it was given, whether they are JSON or not, and no error, and calls
\* RunScript not once.
C17_EmptyScriptSet ==
  (PipelineReturned /\ DOMAIN scripts = {}) =>
    /\ runResult.json = request.object
    /\ ~runResult.err
    /\ calls = << >>

\* an indented document went through a pipeline without scripts
C17_Witness ==
  /\ pc = "ran"
  /\ pipelineRuns = 1
  /\ DOMAIN scripts = {}
  /\ request.object.form = "pretty"
  /\ runResult.json = request.object

\* C18, as stated: what the pipeline returns holds a list of outcomes with
\* one entry per input script.
C18_ResultHasOutcomeList ==
  PipelineReturned =>
    /\ "outcomes" \in DOMAIN runResult
    /\ Len(runResult.outcomes) = Cardinality(DOMAIN scripts)

\* C18, amended: the pipeline returns the final document and a nil error and
\* nothing else; the outcomes are logged and counted only.  RunScript is
\* called once per input script, in execution order, and the two counters
\* logged at the end tell how many of these calls succeeded and failed.
C18_OutcomesLoggedAndCounted ==
  PipelineReturned =>
    /\ DOMAIN runResult = {"json", "err"}
    /\ [i \in DOMAIN calls |-> calls[i].name] = sortedNames
    /\ Len(calls) = Cardinality(DOMAIN scripts)
    /\ \A n \in DOMAIN scripts : \E i \in DOMAIN calls : calls[i].name = n
    /\ successCount = Cardinality(OkCalls)
    /\ failCount = Len(calls) - Cardinality(OkCalls)

\* three scripts ran, the second one failed
C18_Witness ==
  /\ pc = "ran"
  /\ Len(calls) = 3
  /\ calls[1].ok /\ ~calls[2].ok /\ calls[3].ok
  /\ successCount = 2
  /\ failCount = 1

\* ---------------------------------------------------------------- ServeHTTP properties
\* C19: a request that is not a POST is answered with 405, a POST whose
\* body does not decode with 400, and for neither a ConfigMap is fetched or
\* the pipeline run: ServeHTTP returns from where it is.
C19_RejectedBeforePipeline ==
  /\ (pc = "done" /\ request.method # "POST") => httpStatus = 405
  /\ (pc = "done" /\ request.method = "POST" /\ request.body = "undecodable") =>
       httpStatus = 400
  /\ (pc # "idle" /\ (request.method # "POST" \/ request.body = "undecodable")) =>
       /\ pc \in {"serve", "done"}
       /\ fetched = << >>
       /\ calls = << >>
       /\ pipelineRuns = 0

\* a GET was answered with 405
C19_Witness ==
  /\ pc = "done"
  /\ request.method = "GET"
  /\ httpStatus = 405
  /\ fetched = << >>

\* a POST with a body that does not decode was answered with 400
C19_WitnessBadBody ==
  /\ pc = "done"
  /\ request.method = "POST"
  /\ request.body = "undecodable"
  /\ httpStatus = 400

\* C20: when the object of the request is not JSON, or its metadata does
\* not parse, the answer denies the request with a message and without a
\* patch, in both modes, and no ConfigMap is fetched and no script run.
C20_UnparsableObjectDenied ==
  (Answered /\ request.method = "POST" /\ request.body = "review"
     /\ (request.object.form = "invalid" \/ request.object.tree.meta = "mistyped")) =>
    /\ ~response.allowed
    /\ response.message # ""
    /\ ~response.patch.present
    /\ fetched = << >>
    /\ calls = << >>
    /\ pipelineRuns = 0

\* the validating webhook denied an object whose metadata does not parse
C20_Witness ==
  /\ pc = "done"
  /\ webhookType = "validating"
  /\ request.method = "POST"
  /\ request.object.tree.meta = "mistyped"
  /\ ~response.allowed
  /\ response.message = "failed to parse object metadata"

\* the mutating webhook denied an object that is not JSON
C20_WitnessInvalid ==
  /\ pc = "done"
  /\ webhookType = "mutating"
  /\ request.method = "POST"
  /\ request.object.form = "invalid"
  /\ ~response.allowed

\* ---------------------------------------------------------------- exec properties
\* C25: in exec mode, when the script raised an error, the command prints
\* "Error executing script", exits with a failure and prints no document.
C25_ExecFailsOnScriptError ==
  (pc = "exited" /\ \E i \in DOMAIN calls : calls[i].err = "script") =>
    /\ exitCode = 1
    /\ stderr = "Error executing script"
    /\ stdout = NoBytes

C27_Terminates ==
  (pc = "called") ~>
    (/\ pc = "ran"
     /\ Len(calls) = Cardinality(DOMAIN scripts)
     /\ \A n \in DOMAIN scripts :
          Cardinality({ i \in DOMAIN calls : calls[i].name = n }) = 1
     /\ successCount + failCount = Cardinality(DOMAIN scripts))

\* a run of three scripts of which one succeeded has returned
C27_Witness ==
  /\ pc = "ran"
  /\ Cardinality(DOMAIN scripts) = 3
  /\ Len(calls) = 3
  /\ successCount = 1
  /\ failCount = 2

\* ---------------------------------------------------------------- ParseAnnotation properties
\* C28: ParseAnnotation returns the references the loader fetches for the
\* same annotation value, in the same order; when a fetch failed the loader
\* stopped there, and what it fetched is the beginning of what
\* ParseAnnotation returns.
C28_ParseAnnotationAgrees ==
  pc = "parsed" =>
    LET refs == [i \in DOMAIN result |-> ScriptName(result[i].Namespace, result[i].Name)]
    IN IF FetchFailed
       THEN /\ Len(fetched) <= Len(refs)
            /\ FetchedNames = SubSeq(refs, 1, Len(fetched))
       ELSE FetchedNames = refs

\* the annotation " a/a,a": one reference with whitespace around it and
\* one malformed entry
C28_Witness ==
  /\ pc = "parsed"
  /\ Unmarshal(request.object).annotations.value = << " ", "a", "/", "a", ",", "a" >>
  /\ ~FetchFailed
  /\ result = << [Namespace |-> << "a" >>, Name |-> << "a" >>] >>
  /\ Len(fetched) = 1

\* ---------------------------------------------------------------- response properties
\* C29: a POST whose body decodes as an AdmissionReview, with or without a
\* request in it, is answered: ServeHTTP does not end without a response,
\* and the response it sends carries a decision and the UID of the request.
C29_AlwaysAnswers ==
  (request.method = "POST" /\ request.body \in {"review", "norequest"}) =>
    /\ pc # "panic"
    /\ pc = "done" => (httpStatus = 200 /\ response.uid = request.uid)

\* C30: in a response of handleAdmissionRequest a patch comes only from
\* the mutating handler, with allowed = true and the patch type JSONPatch;
\* a denial has a message and no patch; no patch type without a patch.
C30_ResponseShape ==
  Answered =>
    /\ response.patch.present =>
         (webhookType = "mutating" /\ response.allowed /\ response.patchType = "JSONPatch")
    /\ ~response.allowed => (response.message # "" /\ ~response.patch.present)
    /\ response.patchType # "" => response.patch.present

\* the mutating handler answered with a patch
C30_Witness ==
  /\ pc = "respond"
  /\ webhookType = "mutating"
  /\ response.allowed
  /\ response.patch.present
  /\ response.patchType = "JSONPatch"

\* a denial
C30_WitnessDenial ==
  /\ pc = "respond"
  /\ ~response.allowed
  /\ response.message = "failed to load scripts"
  /\ response.patchType = ""

\* ---------------------------------------------------------------- interpreter properties
\* C21: every RunScript call that reached the script found the global
\* `counter` unset: after the one increment of this call it is 1, whatever
\* the scripts run before on the same runner, the same body included, have
\* set; a call that did not reach the script set nothing.
C21_FreshInterpreter ==
  \A g \in Goroutines : \A i \in DOMAIN vmCalls[g] :
    vmCalls[g][i].seen =
      IF vmCalls[g][i].err \in {"", "script", "fromLua"} THEN 1 ELSE 0

\* the same body ran twice in a row on one goroutine and counted from
\* nothing both times
C21_Witness ==
  \E g \in Goroutines :
    /\ vmPc[g] = "returned"
    /\ vmScripts[g] = << "counter", "counter" >>
    /\ Len(vmCalls[g]) = 2
    /\ vmCalls[g][1].seen = 1 /\ vmCalls[g][1].err = ""
    /\ vmCalls[g][2].seen = 1 /\ vmCalls[g][2].err = ""

\* C22: of two requests in progress at the same time, nothing the one has
\* written is written by the other: no object of the handler has two
\* writers.
C22_NoSharedWrites ==
  \A g, h \in Goroutines :
    (g # h /\ vmPc[g] \notin {"idle", "returned"} /\ g \in typeRegistry.writers)
      => h \notin typeRegistry.writers

\* C23: a goroutine has at most one interpreter open, and none when it is
\* not inside RunScript, whichever way the last call returned.
C23_OneInterpreterLive ==
  \A g \in Goroutines :
    /\ L[g].live \in {0, 1}
    /\ vmPc[g] \in {"idle", "call", "returned"} => L[g].live = 0
    /\ vmPc[g] \notin {"idle", "call", "returned"} => L[g].live = 1

\* a pipeline whose first script raised an error and whose second one was
\* stopped by a translation error has returned with no interpreter open
C23_Witness ==
  \E g \in Goroutines :
    /\ vmPc[g] = "returned"
    /\ Len(vmCalls[g]) = 2
    /\ vmCalls[g][1].err = "script"
    /\ vmCalls[g][2].err = "toLua"
    /\ L[g].live = 0

\* C24: when the request is cancelled while a script runs, that script does
\* not run to a successful end and no script is run after it.
C24_CancelAbandons ==
  \A g \in Goroutines :
    ctxDone[g].done =>
      /\ Len(vmCalls[g]) <= ctxDone[g].idx
      /\ Len(vmCalls[g]) = ctxDone[g].idx => vmCalls[g][ctxDone[g].idx].err # ""

====
